---- MODULE Spec2Model ----
(***************************************************************************)
(* State-machine model of the JupyterLab file browser extension            *)
(* (src/unnamed/part_000): the factory plugin (activateFactory and its     *)
(* createFileBrowser closure), the browser plugin (activateBrowser, with   *)
(* its two promise callbacks and the layoutModified handler), addCommands, *)
(* createContextMenu and createLauncher.                                   *)
(*                                                                         *)
(* The host (shell, promises, user) is the environment: it resolves the    *)
(* two "restored" promises in any order, opens and closes main-area items, *)
(* emits layoutModified, clicks toolbar buttons, executes commands and     *)
(* opens context menu.  Promise callbacks are separate steps that become  *)
(* enabled once the promise they wait on has resolved.                     *)
(***************************************************************************)
EXTENDS Integers, Sequences, FiniteSets, TLC

\* ---- bounds of the model ----
MaxBrowsers == 2
MaxMain == 1
MaxSignals == 2
MaxLaunchers == 1

\* ---- program constants ----
namespace == "filebrowser"

CmdCopy == "filebrowser:copy"
CmdCut == "filebrowser:cut"
CmdDel == "filebrowser:delete"
CmdDownload == "filebrowser:download"
CmdDuplicate == "filebrowser:duplicate"
CmdHideBrowser == "filebrowser:hide-main"
CmdOpen == "filebrowser:open"
CmdPaste == "filebrowser:paste"
CmdRename == "filebrowser:rename"
CmdShowBrowser == "filebrowser:activate-main"
CmdShutdown == "filebrowser:shutdown"
CmdToggleBrowser == "filebrowser:toggle-main"
CmdCreateLauncher == "filebrowser:create-main-launcher"

\* The commands addCommands registers.
AddedCommands ==
  { CmdDel, CmdCopy, CmdCut, CmdDownload, CmdDuplicate, CmdHideBrowser,
    CmdOpen, CmdPaste, CmdRename, CmdShowBrowser, CmdShutdown,
    CmdToggleBrowser, CmdCreateLauncher }

\* ---- inputs ----
\* ids a caller passes to createFileBrowser
Ids == { "filebrowser", "fb2" }
\* IFileBrowserFactory.IOptions values: absent fields are "undef"
OptionSet ==
  { [driveName |-> "undef", state |-> "undef", commands |-> "undef"],
    [driveName |-> "D", state |-> "null", commands |-> "custom"] }
\* what registry.preferredWidgetFactories(path) may return
FactoryLists == { <<>>, <<"Editor">>, <<"Notebook", "Editor">> }

VARIABLES
  factoryActivated,  \* activateFactory has run
  browserActivated,  \* activateBrowser has run
  widgets,           \* the FileBrowser widgets ever constructed, by identity 1..Len
  tracker,           \* InstanceTracker<FileBrowser>: set of tracked widget identities
  returned,          \* widget identities handed out by the factory
  restorer,          \* ILayoutRestorer.add calls, in order
  commandsReg,       \* ids registered in app.commands
  leftArea,          \* shell.addToLeftArea calls, in order
  browserHidden,     \* browser.isHidden of the primary browser
  appRestored,       \* app.restored: "pending" or "resolved"
  layoutFresh,       \* layout.fresh of the value app.restored resolved with
  modelRestored,     \* browser.model.restored of the primary browser has resolved
  thenShow,          \* callback of line 200: "none", "waiting", "done"
  thenAll,           \* callback of line 206: "none", "waiting", "done"
  connected,         \* the layoutModified handler of line 217 is connected
  pendingCreate,     \* queued callbacks of line 212, not yet run
  showExecs,         \* executions of CmdShowBrowser issued by line 202
  mainCount,         \* open items in the shell's main area
  nSignals,          \* layoutModified signals emitted so far
  launchers,         \* 'launcher:create' requests issued by createLauncher, in order
  menu               \* the context menu last created by createContextMenu, << >> if none

vars == << factoryActivated, browserActivated, widgets, tracker, returned,
           restorer, commandsReg, leftArea, browserHidden, appRestored,
           layoutFresh, modelRestored, thenShow, thenAll, connected,
           pendingCreate, showExecs, mainCount, nSignals, launchers, menu >>

\* factory.defaultBrowser: the first widget the factory constructs
defaultBrowser == 1

Init ==
  /\ factoryActivated = FALSE
  /\ browserActivated = FALSE
  /\ widgets = << >>
  /\ tracker = {}
  /\ returned = {}
  /\ restorer = << >>
  /\ commandsReg = {}
  /\ leftArea = << >>
  /\ browserHidden = FALSE
  /\ appRestored = "pending"
  /\ layoutFresh = FALSE
  /\ modelRestored = FALSE
  /\ thenShow = "none"
  /\ thenAll = "none"
  /\ connected = FALSE
  /\ pendingCreate = 0
  /\ showExecs = 0
  /\ mainCount = 0
  /\ nSignals = 0
  /\ launchers = << >>
  /\ menu = << >>

\* ---- activateFactory / createFileBrowser ----

\* new FileBrowserModel + new FileBrowser + toolbar.insertItem(0, 'launch', ..)
NewWidget(id, options) ==
  [ id |-> id,
    driveName |-> IF options.driveName = "undef" THEN "" ELSE options.driveName,
    state |-> IF options.state = "null" THEN "null"
              ELSE IF options.state = "undef" THEN "stateDB" ELSE options.state,
    commands |-> IF options.commands = "undef" THEN "app" ELSE options.commands,
    toolbar |-> << "launch" >>,
    label |-> "" ]

TrackerAddSkipped(t, w) == t
\* tracker.add(widget)
TrackerAdd(t, w) == t \cup {w}

\* the body of the createFileBrowser closure; the widget it returns is
\* Len(widgets')
createFileBrowser(id, options) ==
  LET w == Len(widgets) + 1 IN
  /\ widgets' = Append(widgets, NewWidget(id, options))
  /\ tracker' = TrackerAdd(tracker, w)
  /\ returned' = returned \cup {w}

ActivateFactory ==
  /\ ~factoryActivated
  /\ factoryActivated' = TRUE
  /\ createFileBrowser("filebrowser",
       [driveName |-> "undef", state |-> "undef", commands |-> "undef"])
  /\ UNCHANGED << browserActivated, restorer, commandsReg, leftArea,
                  browserHidden, appRestored, layoutFresh, modelRestored,
                  thenShow, thenAll, connected, pendingCreate, showExecs,
                  mainCount, nSignals, launchers, menu >>

\* a call of factory.createFileBrowser by another extension
CreateFileBrowser ==
  /\ factoryActivated
  /\ Len(widgets) < MaxBrowsers
  /\ \E id \in Ids, options \in OptionSet : createFileBrowser(id, options)
  /\ UNCHANGED << factoryActivated, browserActivated, restorer, commandsReg,
                  leftArea, browserHidden, appRestored, layoutFresh,
                  modelRestored, thenShow, thenAll, connected, pendingCreate,
                  showExecs, mainCount, nSignals, launchers, menu >>

\* ---- activateBrowser ----

RestorerAddTwice(r, w, name) ==
  Append(Append(r, [widget |-> w, name |-> name]), [widget |-> w, name |-> name])
\* restorer.add(browser, namespace)
RestorerAdd(r, w, name) == Append(r, [widget |-> w, name |-> name])

ActivateBrowser ==
  /\ factoryActivated
  /\ ~browserActivated
  /\ browserActivated' = TRUE
  /\ restorer' = RestorerAdd(restorer, defaultBrowser, namespace)
  /\ commandsReg' = commandsReg \cup AddedCommands
  /\ widgets' = [widgets EXCEPT ![defaultBrowser].label = "Files"]
  /\ leftArea' = Append(leftArea, [widget |-> defaultBrowser, rank |-> 100])
  /\ thenShow' = "waiting"
  /\ thenAll' = "waiting"
  /\ UNCHANGED << factoryActivated, tracker, returned, browserHidden,
                  appRestored, layoutFresh, modelRestored, connected,
                  pendingCreate, showExecs, mainCount, nSignals, launchers,
                  menu >>

\* the host resolves app.restored with a layout
ResolveAppRestored ==
  /\ appRestored = "pending"
  /\ appRestored' = "resolved"
  /\ \E fresh \in BOOLEAN : layoutFresh' = fresh
  /\ UNCHANGED << factoryActivated, browserActivated, widgets, tracker,
                  returned, restorer, commandsReg, leftArea, browserHidden,
                  modelRestored, thenShow, thenAll, connected, pendingCreate,
                  showExecs, mainCount, nSignals, launchers, menu >>

\* the primary browser's model resolves model.restored
ResolveModelRestored ==
  /\ factoryActivated
  /\ ~modelRestored
  /\ modelRestored' = TRUE
  /\ UNCHANGED << factoryActivated, browserActivated, widgets, tracker,
                  returned, restorer, commandsReg, leftArea, browserHidden,
                  appRestored, layoutFresh, thenShow, thenAll, connected,
                  pendingCreate, showExecs, mainCount, nSignals, launchers,
                  menu >>

ShouldShowAlways(fresh) == TRUE
\* if (layout.fresh)
ShouldShow(fresh) == fresh

\* app.restored.then(layout => { ... })
RestoredThen ==
  /\ thenShow = "waiting"
  /\ appRestored = "resolved"
  /\ thenShow' = "done"
  /\ IF ShouldShow(layoutFresh)
       THEN /\ showExecs' = showExecs + 1
            /\ browserHidden' = IF CmdShowBrowser \in commandsReg
                                  THEN FALSE ELSE browserHidden
       ELSE UNCHANGED << showExecs, browserHidden >>
  /\ UNCHANGED << factoryActivated, browserActivated, widgets, tracker,
                  returned, restorer, commandsReg, leftArea, appRestored,
                  layoutFresh, modelRestored, thenAll, connected,
                  pendingCreate, mainCount, nSignals, launchers, menu >>

\* app.shell.isEmpty('main')
isEmpty == mainCount = 0

MaybeCreateAlways(pending) == pending + 1
\* maybeCreate(): queue createLauncher behind model.restored if main is empty
maybeCreate(pending) == IF isEmpty THEN pending + 1 ELSE pending

AppRestoredOnly == appRestored = "resolved"
\* Promise.all([app.restored, browser.model.restored]) has resolved
AllRestored == appRestored = "resolved" /\ modelRestored

\* Promise.all([...]).then(() => { ...connect...; maybeCreate(); })
AllThen ==
  /\ thenAll = "waiting"
  /\ AllRestored
  /\ thenAll' = "done"
  /\ connected' = TRUE
  /\ pendingCreate' = maybeCreate(pendingCreate)
  /\ UNCHANGED << factoryActivated, browserActivated, widgets, tracker,
                  returned, restorer, commandsReg, leftArea, browserHidden,
                  appRestored, layoutFresh, modelRestored, thenShow,
                  showExecs, mainCount, nSignals, launchers, menu >>

\* the shell emits layoutModified; the handler of line 217 runs if connected
LayoutModified ==
  /\ nSignals < MaxSignals
  /\ nSignals' = nSignals + 1
  /\ pendingCreate' = IF connected THEN maybeCreate(pendingCreate)
                                   ELSE pendingCreate
  /\ UNCHANGED << factoryActivated, browserActivated, widgets, tracker,
                  returned, restorer, commandsReg, leftArea, browserHidden,
                  appRestored, layoutFresh, modelRestored, thenShow, thenAll,
                  connected, showExecs, mainCount, launchers, menu >>

\* the host adds an item to the main area
OpenItem ==
  /\ mainCount < MaxMain
  /\ mainCount' = mainCount + 1
  /\ UNCHANGED << factoryActivated, browserActivated, widgets, tracker,
                  returned, restorer, commandsReg, leftArea, browserHidden,
                  appRestored, layoutFresh, modelRestored, thenShow, thenAll,
                  connected, pendingCreate, showExecs, nSignals, launchers,
                  menu >>

\* the host closes an item of the main area
CloseItem ==
  /\ mainCount > 0
  /\ mainCount' = mainCount - 1
  /\ UNCHANGED << factoryActivated, browserActivated, widgets, tracker,
                  returned, restorer, commandsReg, leftArea, browserHidden,
                  appRestored, layoutFresh, modelRestored, thenShow, thenAll,
                  connected, pendingCreate, showExecs, nSignals, launchers,
                  menu >>

\* ---- createLauncher ----

\* commands.execute('launcher:create', { cwd: model.path }) for browser w
createLauncher(w, by) ==
  launchers' = Append(launchers, [by |-> by, browser |-> w])

\* the queued callback of line 212, run once model.restored has resolved:
\* () => createLauncher(commands, browser)
RunCreateLauncher ==
  /\ pendingCreate > 0
  /\ modelRestored
  /\ Len(launchers) < MaxLaunchers
  /\ pendingCreate' = pendingCreate - 1
  /\ createLauncher(defaultBrowser, "auto")
  /\ UNCHANGED << factoryActivated, browserActivated, widgets, tracker,
                  returned, restorer, commandsReg, leftArea, browserHidden,
                  appRestored, layoutFresh, modelRestored, thenShow, thenAll,
                  connected, showExecs, mainCount, nSignals, menu >>

\* onClick of the 'launch' toolbar button of a file browser
ClickLaunch ==
  /\ Len(launchers) < MaxLaunchers
  /\ \E w \in 1..Len(widgets) : createLauncher(w, "toolbar")
  /\ UNCHANGED << factoryActivated, browserActivated, widgets, tracker,
                  returned, restorer, commandsReg, leftArea, browserHidden,
                  appRestored, layoutFresh, modelRestored, thenShow, thenAll,
                  connected, pendingCreate, showExecs, mainCount, nSignals,
                  menu >>

\* ---- addCommands: the commands for the main browser, executed by a user ----

\* execute of CommandIDs.showBrowser / hideBrowser / toggleBrowser
HiddenAfter(cmd) ==
  IF cmd = CmdShowBrowser THEN FALSE
  ELSE IF cmd = CmdHideBrowser THEN (IF ~browserHidden THEN TRUE ELSE browserHidden)
  ELSE IF cmd = CmdToggleBrowser THEN (IF browserHidden THEN FALSE ELSE TRUE)
  ELSE browserHidden

ExecuteCommand ==
  /\ \E cmd \in { CmdShowBrowser, CmdHideBrowser, CmdToggleBrowser,
                  CmdCreateLauncher } :
       /\ cmd \in commandsReg
       /\ browserHidden' = HiddenAfter(cmd)
       /\ IF cmd = CmdCreateLauncher
            THEN /\ Len(launchers) < MaxLaunchers
                 /\ createLauncher(defaultBrowser, "command")
            ELSE /\ browserHidden' # browserHidden
                 /\ UNCHANGED launchers
  /\ UNCHANGED << factoryActivated, browserActivated, widgets, tracker,
                  returned, restorer, commandsReg, leftArea, appRestored,
                  layoutFresh, modelRestored, thenShow, thenAll, connected,
                  pendingCreate, showExecs, mainCount, nSignals, menu >>

\* ---- createContextMenu ----

\* the 'Open With...' submenu: one 'docmanager:open' item per factory
OpenWithItems(path, factories) ==
  [ i \in 1..Len(factories) |->
      [ command |-> "docmanager:open", factory |-> factories[i], path |-> path ] ]

\* the items of the menu createContextMenu returns
ContextMenuItems(path, factories) ==
  << [type |-> "command", command |-> CmdOpen, submenu |-> << >>] >>
  \o (IF path # "" /\ Len(factories) > 1
        THEN << [type |-> "submenu", command |-> "",
                 submenu |-> OpenWithItems(path, factories)] >>
        ELSE << >>)
  \o [ i \in 1..8 |->
        [type |-> "command",
         command |-> << CmdRename, CmdDel, CmdDuplicate, CmdCut, CmdCopy,
                        CmdPaste, CmdDownload, CmdShutdown >>[i],
         submenu |-> << >>] ]

\* 'contextmenu' event on a browser's listing: createContextMenu + menu.open
ContextMenu ==
  /\ \E w \in 1..Len(widgets), path \in { "", "f" }, factories \in FactoryLists :
       /\ menu' = ContextMenuItems(path, factories)
       /\ menu' # menu
  /\ UNCHANGED << factoryActivated, browserActivated, widgets, tracker,
                  returned, restorer, commandsReg, leftArea, browserHidden,
                  appRestored, layoutFresh, modelRestored, thenShow, thenAll,
                  connected, pendingCreate, showExecs, mainCount, nSignals,
                  launchers >>

Next ==
  \/ ActivateFactory
  \/ CreateFileBrowser
  \/ ActivateBrowser
  \/ ResolveAppRestored
  \/ ResolveModelRestored
  \/ RestoredThen
  \/ AllThen
  \/ LayoutModified
  \/ OpenItem
  \/ CloseItem
  \/ RunCreateLauncher
  \/ ClickLaunch
  \/ ExecuteCommand
  \/ ContextMenu

Spec == Init /\ [][Next]_vars

\* ---- properties ----

\* the 'launcher:create' requests issued by the automatic creation of line 212
AutoLaunchers == { i \in 1..Len(launchers) : launchers[i].by = "auto" }

\* C1: once the factory is activated, every file browser it has returned
\* (defaultBrowser, created with id 'filebrowser', included) is in the
\* factory's tracker.
C1_ReturnedAreTracked ==
  factoryActivated =>
    /\ defaultBrowser \in returned
    /\ widgets[defaultBrowser].id = "filebrowser"
    /\ returned = 1..Len(widgets)
    /\ \A w \in returned : w \in tracker

C1_Witness ==
  /\ Cardinality(returned) >= 2
  /\ \E w \in returned : w # defaultBrowser /\ w \in tracker

\* C2: the plugin executes 'filebrowser:activate-main' only after app.restored
\* has resolved and only for a fresh layout; once the callback of app.restored
\* has run it has executed the command exactly once if the layout is fresh and
\* not at all if the layout has saved data.
C2_ShowIffFresh ==
  /\ showExecs > 0 => (appRestored = "resolved" /\ layoutFresh /\ thenShow = "done")
  /\ thenShow = "done" => showExecs = (IF layoutFresh THEN 1 ELSE 0)

C2_Witness ==
  /\ thenShow = "done"
  /\ layoutFresh
  /\ showExecs = 1
  /\ ~browserHidden

\* C3: no automatic launcher is queued or requested, and the layoutModified
\* handler is not connected, before both app.restored and
\* browser.model.restored have resolved.
C3_NoLauncherBeforeRestored ==
  (connected \/ pendingCreate > 0 \/ AutoLaunchers # {}) =>
    (appRestored = "resolved" /\ modelRestored)

C3_Witness ==
  /\ browserActivated
  /\ nSignals > 0
  /\ appRestored = "resolved"
  /\ ~modelRestored
  /\ pendingCreate = 0

\* C4: at the initial check and on every layoutModified signal handled after
\* restoration, one launcher creation is queued if the main area is empty and
\* none if it has open items; every queued creation requests one launcher for
\* the primary browser and no automatic launcher is requested otherwise.
C4_LauncherIffEmpty ==
  [][ /\ ((connected /\ nSignals' # nSignals) \/ (thenAll = "waiting" /\ thenAll' = "done"))
        => pendingCreate' = (IF mainCount = 0 THEN pendingCreate + 1 ELSE pendingCreate)
      /\ pendingCreate' < pendingCreate
        => /\ pendingCreate' = pendingCreate - 1
           /\ launchers' = Append(launchers, [by |-> "auto", browser |-> defaultBrowser])
      /\ pendingCreate' >= pendingCreate
        => { i \in 1..Len(launchers') : launchers'[i].by = "auto" } = AutoLaunchers
    ]_vars

C4_Witness ==
  /\ connected
  /\ nSignals > 0
  /\ mainCount > 0
  /\ AutoLaunchers # {}
  /\ pendingCreate = 0

\* a context menu has an 'Open With...' submenu
HasSubmenu(m) == \E i \in 1..Len(m) : m[i].type = "submenu"

\* C5: creating a context menu with an 'Open With...' submenu registers
\* temporary commands in the command registry (to be disposed with the menu).
C5_TemporaryCommands ==
  [][ (menu' # menu /\ HasSubmenu(menu')) => commandsReg' # commandsReg ]_vars

\* C6: the layout restorer holds nothing before activateBrowser and exactly
\* one entry afterwards, the primary browser under namespace 'filebrowser',
\* whatever browsers createFileBrowser has made.
C6_OnlyPrimaryRestored ==
  restorer = IF browserActivated
               THEN << [widget |-> defaultBrowser, name |-> "filebrowser"] >>
               ELSE << >>

C6_Witness ==
  /\ browserActivated
  /\ Len(widgets) >= 2
  /\ Len(restorer) = 1

====
